---- MODULE Spec2Model ----
(***************************************************************************)
(* UrlPathTransformer (src/src/transformers/urlPathTransformer.ts): the    *)
(* translation between client filesystem paths and target URLs, with its   *)
(* two cache maps.                                                         *)
(*                                                                         *)
(* A string is a sequence of tokens ("/" and "\\" are the separators, a    *)
(* scheme token such as "http://h" starts a URL).  The empty sequence      *)
(* stands for the two falsy values the code meets, undefined and '': the   *)
(* code only ever tests them with !x or if (x).                            *)
(***************************************************************************)
EXTENDS Naturals, Sequences, FiniteSets

VARIABLES
    platform,               \* the host's path flavour, fixed for a run
    phase,                  \* "Unconfigured" until the first launch/attach
    _webRoot,               \* undefined (None) until configured
    _pathMapping,           \* ordered <<[url, dir], ...>>; {} is << >>
    _clientPathToTargetUrl, \* Map: client path -> target url
    _targetUrlToClientPath, \* Map: target url -> client path
    last                    \* the last call: its name, argument and result

vars == <<platform, phase, _webRoot, _pathMapping,
          _clientPathToTargetUrl, _targetUrlToClientPath, last>>

None == << >>

\* Frames per stack-trace response.
MaxFrames == 2

--------------------------------------------------------------------------
(* The strings the environment supplies.                                   *)

uApp == <<"http://h", "/", "app", "/", "m.js">>
uRoot == <<"http://h", "/", "m.js">>
uEval == <<"eval://", "1">>
uOpaque == <<"about:", "blank">>

ScriptUrls == {uApp, uRoot, uEval, uOpaque}

Schemes == {"http://h", "eval://", "about:"}

EVAL_NAME_PREFIX == "eval://"

WebRoots == {None, <<"/", "proj">>, <<"proj">>}

mapApp == [url |-> <<"/", "app", "/">>, dir |-> <<"/", "Src">>]
PathMappings == {<< >>, <<mapApp>>}

\* launch/attach arguments; pathMapping may be absent from them.
LaunchArgs ==
    [webRoot : WebRoots, hasPathMapping : {TRUE}, pathMapping : PathMappings]
    \cup [webRoot : WebRoots, hasPathMapping : {FALSE}, pathMapping : {None}]

\* source.path values of a breakpoint request (None: no path).
BreakpointPaths ==
    {None, uApp,
     <<"/", "proj", "/", "m.js">>,
     <<"\\", "proj", "\\", "m.js">>,
     <<"/", "Proj", "/", "m.js">>,
     <<"/", "Src", "/", "m.js">>,
     <<"proj", "/", "m.js">>}

NoFrameSource == [hasSource |-> FALSE, path |-> None,
                  sourceReference |-> << >>, origin |-> None]

FrameOf(p) == [hasSource |-> TRUE, path |-> p,
               sourceReference |-> <<1000>>, origin |-> <<"eval code">>]

Frames == {NoFrameSource, FrameOf(None), FrameOf(uApp)}

Responses == UNION {[1..n -> Frames] : n \in 0..MaxFrames}

--------------------------------------------------------------------------
(* Path Canonicalizer, Node's path.isAbsolute, and the two resolvers.      *)

Lower(t) ==
    CASE t = "Proj" -> "proj"
      [] t = "Src" -> "src"
      [] OTHER -> t

\* utils.canonicalizeUrl: separator- and (on a case-insensitive host)
\* case-normalised; idempotent.
canonicalizeUrl(p) ==
    [i \in 1..Len(p) |->
        IF p[i] = "\\" THEN "/"
        ELSE IF platform = "win32" THEN Lower(p[i]) ELSE p[i]]

\* utils.isURL: by scheme prefix.
isURL(p) == p # None /\ p[1] \in Schemes

\* path.isAbsolute of Node: a leading separator of the host's flavour.
isAbsolute(p) ==
    p # None /\ (p[1] = "/" \/ (platform = "win32" /\ p[1] = "\\"))

normalizeSeparators(p) == [i \in 1..Len(p) |-> IF p[i] = "\\" THEN "/" ELSE p[i]]

\* The path part of a URL: what follows the scheme and origin.
urlPathname(u) == IF isURL(u) THEN Tail(u) ELSE u

startsWith(s, prefix) ==
    Len(prefix) <= Len(s) /\ SubSeq(s, 1, Len(prefix)) = prefix

\* One mapping entry applied to a URL's path: the matched prefix replaced
\* by the entry's local directory, the remainder appended.
toClientPath(entry, pathname) ==
    normalizeSeparators(
        entry.dir \o <<"/">> \o SubSeq(pathname, Len(entry.url) + 1, Len(pathname)))

RECURSIVE byPathMappings(_, _)
byPathMappings(pathname, mapping) ==
    IF mapping = << >> THEN None
    ELSE IF startsWith(pathname, Head(mapping).url)
              /\ Len(pathname) > Len(Head(mapping).url)
         THEN toClientPath(Head(mapping), pathname)
         ELSE byPathMappings(pathname, Tail(mapping))

\* ChromeUtils.targetUrlToClientPathByPathMappings: first matching entry.
targetUrlToClientPathByPathMappings(scriptUrl, mapping) ==
    IF ~isURL(scriptUrl) THEN None
    ELSE byPathMappings(urlPathname(scriptUrl), mapping)

\* ChromeUtils.targetUrlToClientPath: the URL's path joined to webRoot.
targetUrlToClientPath(root, aUrl) ==
    IF aUrl = None \/ root = None THEN None
    ELSE LET pathname == urlPathname(aUrl) IN
         IF Len(pathname) < 2 \/ pathname[1] # "/" THEN None
         ELSE canonicalizeUrl(root \o pathname)

--------------------------------------------------------------------------
(* The cache maps (Map.get / Map.set).                                     *)

mapGet(m, k) == IF k \in DOMAIN m THEN m[k] ELSE None

\* Mutant: a key that is already present keeps its first value.
mapSet_keepsFirst(m, k, v) ==
    [x \in (DOMAIN m) \cup {k} |-> IF x \in DOMAIN m THEN m[x] ELSE v]

mapSet(m, k, v) == [x \in (DOMAIN m) \cup {k} |-> IF x = k THEN v ELSE m[x]]

emptyMap == [x \in {} |-> None]

getTargetPathFromClientPath(clientPath) ==
    IF isAbsolute(clientPath)
    THEN mapGet(_clientPathToTargetUrl, canonicalizeUrl(clientPath))
    ELSE clientPath

getClientPathFromTargetPath(targetPath) ==
    mapGet(_targetUrlToClientPath, targetPath)

--------------------------------------------------------------------------
(* The operations.                                                         *)

Call(op, arg, ret, log) ==
    [op |-> op, arg |-> arg, ret |-> ret, log |-> log]

Init ==
    /\ platform \in {"posix", "win32"}
    /\ phase = "Unconfigured"
    /\ _webRoot = None
    /\ _pathMapping = << >>
    /\ _clientPathToTargetUrl = emptyMap
    /\ _targetUrlToClientPath = emptyMap
    /\ last = Call("new", None, None, << >>)

\* Mutant: a launch/attach also starts with fresh cache maps.
configure_clearsCache(op, args) ==
    /\ _webRoot' = args.webRoot
    /\ _pathMapping' = IF args.hasPathMapping THEN args.pathMapping ELSE << >>
    /\ phase' = "Configured"
    /\ last' = Call(op, args, None, << >>)
    /\ _clientPathToTargetUrl' = emptyMap
    /\ _targetUrlToClientPath' = emptyMap
    /\ UNCHANGED platform

\* Mutant: a launch/attach without pathMapping keeps the previous mapping.
configure_keepsPathMapping(op, args) ==
    /\ _webRoot' = args.webRoot
    /\ _pathMapping' = IF args.hasPathMapping THEN args.pathMapping
                       ELSE _pathMapping
    /\ phase' = "Configured"
    /\ last' = Call(op, args, None, << >>)
    /\ UNCHANGED <<platform, _clientPathToTargetUrl, _targetUrlToClientPath>>

configure(op, args) ==
    /\ _webRoot' = args.webRoot
    /\ _pathMapping' = IF args.hasPathMapping THEN args.pathMapping ELSE << >>
    /\ phase' = "Configured"
    /\ last' = Call(op, args, None, << >>)
    /\ UNCHANGED <<platform, _clientPathToTargetUrl, _targetUrlToClientPath>>

launch == \E args \in LaunchArgs : configure("launch", args)

attach == \E args \in LaunchArgs : configure("attach", args)

\* Mutant: the miss branch assigns url, the failed lookup, instead of path.
setBreakpointsPath_missAssignsUrl(p) ==
    IF p = None THEN p
    ELSE IF isURL(p) THEN p
    ELSE getTargetPathFromClientPath(canonicalizeUrl(p))

\* Mutant: a path that is already a URL is translated back through the
\* target-to-client map.
setBreakpointsPath_translatesUrlBack(p) ==
    IF p = None THEN p
    ELSE IF isURL(p)
    THEN IF getClientPathFromTargetPath(p) # None
         THEN getClientPathFromTargetPath(p) ELSE p
    ELSE LET path == canonicalizeUrl(p)
             url == getTargetPathFromClientPath(path)
         IN IF url # None THEN url ELSE path

\* The value setBreakpoints leaves in args.source.path.
setBreakpointsPath(p) ==
    IF p = None THEN p
    ELSE IF isURL(p) THEN p
    ELSE LET path == canonicalizeUrl(p)
             url == getTargetPathFromClientPath(path)
         IN IF url # None THEN url ELSE path

setBreakpointsLog(p) ==
    IF p = None THEN << >>
    ELSE IF isURL(p) THEN <<"setBP: already a URL">>
    ELSE IF getTargetPathFromClientPath(canonicalizeUrl(p)) # None
         THEN <<"setBP: resolved">>
         ELSE <<"setBP: no target url cached yet">>

setBreakpointsCall(p) ==
    /\ last' = Call("setBreakpoints", p, setBreakpointsPath(p),
                    setBreakpointsLog(p))
    /\ UNCHANGED <<platform, phase, _webRoot, _pathMapping,
                   _clientPathToTargetUrl, _targetUrlToClientPath>>

setBreakpoints == \E p \in BreakpointPaths : setBreakpointsCall(p)

\* Mutant: the configuration is reset together with the cache.
clearTargetContext_resetsConfig ==
    /\ _clientPathToTargetUrl' = emptyMap
    /\ _targetUrlToClientPath' = emptyMap
    /\ _webRoot' = None
    /\ _pathMapping' = << >>
    /\ last' = Call("clearTargetContext", None, None, << >>)
    /\ UNCHANGED <<platform, phase>>

\* Mutant: only the client-to-target map is replaced.
clearTargetContext_clientMapOnly ==
    /\ _clientPathToTargetUrl' = emptyMap
    /\ last' = Call("clearTargetContext", None, None, << >>)
    /\ UNCHANGED <<platform, phase, _webRoot, _pathMapping,
                   _targetUrlToClientPath>>

clearTargetContext ==
    /\ _clientPathToTargetUrl' = emptyMap
    /\ _targetUrlToClientPath' = emptyMap
    /\ last' = Call("clearTargetContext", None, None, << >>)
    /\ UNCHANGED <<platform, phase, _webRoot, _pathMapping>>

\* Mutant: an absent webRoot is replaced by a default directory.
resolveClientPath_defaultsWebRoot(scriptUrl) ==
    LET byMapping == targetUrlToClientPathByPathMappings(scriptUrl, _pathMapping)
    IN IF byMapping # None THEN byMapping
       ELSE targetUrlToClientPath(
                IF _webRoot = None THEN <<"/", "proj">> ELSE _webRoot, scriptUrl)

\* Mutant: the WebRoot Resolver is asked first.
resolveClientPath_webRootFirst(scriptUrl) ==
    LET byWebRoot == targetUrlToClientPath(_webRoot, scriptUrl)
    IN IF byWebRoot # None THEN byWebRoot
       ELSE targetUrlToClientPathByPathMappings(scriptUrl, _pathMapping)

\* The client path scriptParsed resolves scriptUrl to (None: unresolved).
resolveClientPath(scriptUrl) ==
    LET byMapping == targetUrlToClientPathByPathMappings(scriptUrl, _pathMapping)
    IN IF byMapping # None THEN byMapping
       ELSE targetUrlToClientPath(_webRoot, scriptUrl)

\* Mutant: the eval prefix is not tested before logging.
scriptParsedLog_noEvalTest(scriptUrl, clientPath) ==
    IF clientPath = None
    THEN <<"scriptParsed: could not resolve">>
    ELSE <<"scriptParsed: resolved">>

scriptParsedLog(scriptUrl, clientPath) ==
    IF clientPath = None
    THEN IF scriptUrl[1] # EVAL_NAME_PREFIX
         THEN <<"scriptParsed: could not resolve">> ELSE << >>
    ELSE <<"scriptParsed: resolved">>

\* Mutant: clientPath is returned whether or not it was resolved.
scriptParsedReturn_clientPath(scriptUrl, clientPath) == clientPath

scriptParsedReturn(scriptUrl, clientPath) ==
    IF clientPath = None THEN scriptUrl ELSE clientPath

scriptParsedCall(scriptUrl) ==
    LET clientPath == resolveClientPath(scriptUrl) IN
    /\ IF clientPath = None
       THEN UNCHANGED <<_clientPathToTargetUrl, _targetUrlToClientPath>>
       ELSE /\ _clientPathToTargetUrl' =
                   mapSet(_clientPathToTargetUrl, clientPath, scriptUrl)
            /\ _targetUrlToClientPath' =
                   mapSet(_targetUrlToClientPath, scriptUrl, clientPath)
    /\ last' = Call("scriptParsed", scriptUrl,
                    scriptParsedReturn(scriptUrl, clientPath),
                    scriptParsedLog(scriptUrl, clientPath))
    /\ UNCHANGED <<platform, phase, _webRoot, _pathMapping>>

scriptParsed == \E scriptUrl \in ScriptUrls : scriptParsedCall(scriptUrl)

\* Mutant: the WebRoot Resolver is preferred to the cache.
stackFrame_webRootFirst(frame) ==
    IF frame.hasSource /\ frame.path # None
    THEN LET byWebRoot == targetUrlToClientPath(_webRoot, frame.path)
             clientPath == IF byWebRoot # None THEN byWebRoot
                           ELSE getClientPathFromTargetPath(frame.path)
         IN IF clientPath # None
            THEN [frame EXCEPT !.path = clientPath,
                               !.sourceReference = << >>,
                               !.origin = None]
            ELSE frame
    ELSE frame

\* Mutant: sourceReference and origin are cleared whether or not the
\* frame's path was resolved.
stackFrame_alwaysClears(frame) ==
    IF frame.hasSource /\ frame.path # None
    THEN LET cached == getClientPathFromTargetPath(frame.path)
             clientPath == IF cached # None THEN cached
                           ELSE targetUrlToClientPath(_webRoot, frame.path)
         IN [frame EXCEPT !.path = IF clientPath # None THEN clientPath ELSE @,
                          !.sourceReference = << >>,
                          !.origin = None]
    ELSE frame

\* One frame of stackTraceResponse's forEach.
stackFrame(frame) ==
    IF frame.hasSource /\ frame.path # None
    THEN LET cached == getClientPathFromTargetPath(frame.path)
             clientPath == IF cached # None THEN cached
                           ELSE targetUrlToClientPath(_webRoot, frame.path)
         IN IF clientPath # None
            THEN [frame EXCEPT !.path = clientPath,
                               !.sourceReference = << >>,
                               !.origin = None]
            ELSE frame
    ELSE frame

\* The frames stackTraceResponse resolves through the WebRoot fallback.
fallbackFrames(response) ==
    {i \in 1..Len(response) :
        /\ response[i].hasSource
        /\ response[i].path # None
        /\ getClientPathFromTargetPath(response[i].path) = None
        /\ targetUrlToClientPath(_webRoot, response[i].path) # None}

\* Mutant: a frame resolved through the WebRoot fallback is put in the cache.
stackTraceResponse_cachesFallback ==
    \E response \in Responses :
        /\ last' = Call("stackTraceResponse", response,
                        [i \in 1..Len(response) |-> stackFrame(response[i])],
                        << >>)
        /\ IF fallbackFrames(response) = {}
           THEN UNCHANGED <<_clientPathToTargetUrl, _targetUrlToClientPath>>
           ELSE LET i == CHOOSE j \in fallbackFrames(response) : TRUE
                    url == response[i].path
                    clientPath == targetUrlToClientPath(_webRoot, url)
                IN /\ _clientPathToTargetUrl' =
                          mapSet(_clientPathToTargetUrl, clientPath, url)
                   /\ _targetUrlToClientPath' =
                          mapSet(_targetUrlToClientPath, url, clientPath)
        /\ UNCHANGED <<platform, phase, _webRoot, _pathMapping>>

stackTraceResponse ==
    \E response \in Responses :
        /\ last' = Call("stackTraceResponse", response,
                        [i \in 1..Len(response) |-> stackFrame(response[i])],
                        << >>)
        /\ UNCHANGED <<platform, phase, _webRoot, _pathMapping,
                       _clientPathToTargetUrl, _targetUrlToClientPath>>

callGetTargetPathFromClientPath ==
    \E clientPath \in BreakpointPaths \ {None} :
        /\ last' = Call("getTargetPathFromClientPath", clientPath,
                        getTargetPathFromClientPath(clientPath), << >>)
        /\ UNCHANGED <<platform, phase, _webRoot, _pathMapping,
                       _clientPathToTargetUrl, _targetUrlToClientPath>>

callGetClientPathFromTargetPath ==
    \E targetPath \in ScriptUrls :
        /\ last' = Call("getClientPathFromTargetPath", targetPath,
                        getClientPathFromTargetPath(targetPath), << >>)
        /\ UNCHANGED <<platform, phase, _webRoot, _pathMapping,
                       _clientPathToTargetUrl, _targetUrlToClientPath>>

Next ==
    \/ launch
    \/ attach
    \/ setBreakpoints
    \/ clearTargetContext
    \/ scriptParsed
    \/ stackTraceResponse
    \/ callGetTargetPathFromClientPath
    \/ callGetClientPathFromTargetPath

Spec == Init /\ [][Next]_vars

\* The same transformer with a target that also reports a script by a
\* filesystem-style identifier (a remote absolute path, not a URL).
uPath == <<"/", "proj", "/", "m.js">>

TargetIdentifiers == {uRoot, uPath}

RewritablePaths ==
    BreakpointPaths \cup {<<"/", "proj", "/", "proj", "/", "m.js">>}

NextFilesystemTargets ==
    \/ launch
    \/ clearTargetContext
    \/ \E scriptUrl \in TargetIdentifiers : scriptParsedCall(scriptUrl)
    \/ \E p \in RewritablePaths : setBreakpointsCall(p)

SpecFilesystemTargets == Init /\ [][NextFilesystemTargets]_vars

--------------------------------------------------------------------------
(* Properties.                                                             *)

\* Every client path some configuration resolves some script URL to.
ClientPaths ==
    ({targetUrlToClientPathByPathMappings(u, m) : u \in ScriptUrls, m \in PathMappings}
     \cup {targetUrlToClientPath(r, u) : r \in WebRoots, u \in ScriptUrls})
    \ {None}

\* C1: the two maps agree in both directions: the target-to-client map
\* holds u -> c exactly when the client-to-target map holds c -> u.
C1_BidirectionalInvariant ==
    /\ \A u \in DOMAIN _targetUrlToClientPath :
           mapGet(_clientPathToTargetUrl, _targetUrlToClientPath[u]) = u
    /\ \A c \in DOMAIN _clientPathToTargetUrl :
           mapGet(_targetUrlToClientPath, _clientPathToTargetUrl[c]) = c

\* C2: right after scriptParsed(u) resolved to c, getClientPathFromTargetPath(u)
\* is c and getTargetPathFromClientPath(c) is u.
C2_RoundTrip ==
    (last.op = "scriptParsed" /\ last.ret # last.arg) =>
        /\ getClientPathFromTargetPath(last.arg) = last.ret
        /\ getTargetPathFromClientPath(last.ret) = last.arg

\* C3: clearTargetContext makes both lookups return none for every key that
\* was cached, and a lookup that returns none keeps returning none across
\* launch, attach, setBreakpoints and stackTraceResponse.
C3_CacheReset ==
    [][ /\ last'.op = "clearTargetContext" =>
              /\ \A u \in DOMAIN _targetUrlToClientPath :
                     getClientPathFromTargetPath(u)' = None
              /\ \A c \in DOMAIN _clientPathToTargetUrl :
                     getTargetPathFromClientPath(c)' = None
        /\ last'.op \in {"launch", "attach", "setBreakpoints", "stackTraceResponse"} =>
              /\ \A u \in ScriptUrls :
                     getClientPathFromTargetPath(u) = None
                         => getClientPathFromTargetPath(u)' = None
              /\ \A c \in ClientPaths :
                     getTargetPathFromClientPath(c) = None
                         => getTargetPathFromClientPath(c)' = None ]_vars

\* C4: when the Path-Mapping Resolver yields a client path, scriptParsed
\* returns and caches exactly that path; the WebRoot Resolver's result is
\* returned and cached only when the Path-Mapping Resolver yields none.
C4_PathMappingWins ==
    last.op = "scriptParsed" =>
        LET byMapping == targetUrlToClientPathByPathMappings(last.arg, _pathMapping)
            byWebRoot == targetUrlToClientPath(_webRoot, last.arg)
        IN /\ byMapping # None =>
                  /\ last.ret = byMapping
                  /\ getClientPathFromTargetPath(last.arg) = byMapping
           /\ (byMapping = None /\ byWebRoot # None) =>
                  /\ last.ret = byWebRoot
                  /\ getClientPathFromTargetPath(last.arg) = byWebRoot

\* A scriptParsed whose URL both resolvers resolve, to different paths.
C4_Witness ==
    /\ last.op = "scriptParsed"
    /\ targetUrlToClientPathByPathMappings(last.arg, _pathMapping) # None
    /\ targetUrlToClientPath(_webRoot, last.arg) # None
    /\ targetUrlToClientPathByPathMappings(last.arg, _pathMapping)
           # targetUrlToClientPath(_webRoot, last.arg)
    /\ last.ret = targetUrlToClientPathByPathMappings(last.arg, _pathMapping)

\* C5: setBreakpoints, the two lookups, stackTraceResponse and a scriptParsed
\* that fails to resolve leave both cache maps exactly as they were.
C5_OnlyResolutionAddsEntries ==
    [][ (\/ last'.op \in {"setBreakpoints", "stackTraceResponse",
                          "getTargetPathFromClientPath",
                          "getClientPathFromTargetPath"}
         \/ (last'.op = "scriptParsed" /\ last'.ret = last'.arg))
        => UNCHANGED <<_clientPathToTargetUrl, _targetUrlToClientPath>> ]_vars

\* A stackTraceResponse that resolved a frame through the WebRoot fallback.
C5_Witness ==
    /\ last.op = "stackTraceResponse"
    /\ \E i \in 1..Len(last.arg) :
           /\ last.arg[i].hasSource
           /\ last.arg[i].path # None
           /\ getClientPathFromTargetPath(last.arg[i].path) = None
           /\ last.ret[i].path = targetUrlToClientPath(_webRoot, last.arg[i].path)
           /\ last.ret[i].path # last.arg[i].path

\* C6: setBreakpoints leaves a missing path and a URL unchanged; otherwise
\* source.path becomes the target URL the cache holds for the canonical
\* path, or the canonical path when the cache holds none.
C6_SetBreakpointsByCase ==
    last.op = "setBreakpoints" =>
        IF last.arg = None THEN last.ret = None
        ELSE IF isURL(last.arg) THEN last.ret = last.arg
        ELSE IF canonicalizeUrl(last.arg) \in DOMAIN _clientPathToTargetUrl
             THEN last.ret = _clientPathToTargetUrl[canonicalizeUrl(last.arg)]
             ELSE last.ret = canonicalizeUrl(last.arg)

\* C7: setBreakpoints with a non-empty source.path leaves source.path
\* non-empty, in either phase and on a cache miss too.
C7_SetBreakpointsNeverEmpty ==
    (last.op = "setBreakpoints" /\ last.arg # None) => last.ret # None

\* A cache miss on a filesystem path before any launch/attach.
C7_Witness ==
    /\ last.op = "setBreakpoints"
    /\ phase = "Unconfigured"
    /\ last.arg # None
    /\ ~isURL(last.arg)
    /\ isAbsolute(last.arg)
    /\ canonicalizeUrl(last.arg) \notin DOMAIN _clientPathToTargetUrl
    /\ last.ret = canonicalizeUrl(last.arg)

\* C8: scriptParsed returns a resolver's client path, with that pair in
\* both maps, or, when neither resolver succeeds, the scriptUrl unchanged;
\* never none.
C8_ScriptParsedResult ==
    last.op = "scriptParsed" =>
        LET byMapping == targetUrlToClientPathByPathMappings(last.arg, _pathMapping)
            byWebRoot == targetUrlToClientPath(_webRoot, last.arg)
        IN /\ last.ret # None
           /\ IF byMapping = None /\ byWebRoot = None
              THEN last.ret = last.arg
              ELSE /\ last.ret \in {byMapping, byWebRoot} \ {None}
                   /\ mapGet(_clientPathToTargetUrl, last.ret) = last.arg
                   /\ mapGet(_targetUrlToClientPath, last.arg) = last.ret

\* A scriptParsed that neither resolver could resolve, after one that
\* resolved (the cache is populated).
C8_Witness ==
    /\ last.op = "scriptParsed"
    /\ last.ret = last.arg
    /\ _webRoot # None
    /\ DOMAIN _targetUrlToClientPath # {}

\* C9: stackTraceResponse takes a frame's client path from the cache and
\* only on a miss from the WebRoot Resolver; a frame that gets a client
\* path has it as source.path, with sourceReference and origin cleared.
C9_StackTraceRewriting ==
    last.op = "stackTraceResponse" =>
        /\ Len(last.ret) = Len(last.arg)
        /\ \A i \in 1..Len(last.arg) :
               (last.arg[i].hasSource /\ last.arg[i].path # None) =>
                   LET cached == mapGet(_targetUrlToClientPath, last.arg[i].path)
                       clientPath ==
                           IF cached # None THEN cached
                           ELSE targetUrlToClientPath(_webRoot, last.arg[i].path)
                   IN clientPath # None =>
                          /\ last.ret[i].path = clientPath
                          /\ last.ret[i].sourceReference = << >>
                          /\ last.ret[i].origin = None

\* A frame rewritten from the cache where the WebRoot Resolver would give
\* another path.
C9_Witness ==
    /\ last.op = "stackTraceResponse"
    /\ \E i \in 1..Len(last.arg) :
           /\ last.arg[i].hasSource
           /\ last.arg[i].path # None
           /\ getClientPathFromTargetPath(last.arg[i].path) # None
           /\ targetUrlToClientPath(_webRoot, last.arg[i].path) # None
           /\ getClientPathFromTargetPath(last.arg[i].path)
                  # targetUrlToClientPath(_webRoot, last.arg[i].path)
           /\ last.ret[i].path = getClientPathFromTargetPath(last.arg[i].path)
           /\ last.arg[i].sourceReference # << >>
           /\ last.ret[i].sourceReference = << >>

\* C10: getTargetPathFromClientPath returns a URL unchanged, and for every
\* other input the cache's client-to-target entry for the canonical input
\* (none when there is no entry).
C10_GetTargetPathFromClientPath ==
    last.op = "getTargetPathFromClientPath" =>
        IF isURL(last.arg) THEN last.ret = last.arg
        ELSE last.ret = mapGet(_clientPathToTargetUrl, canonicalizeUrl(last.arg))

\* C11: a setBreakpoints call that follows a scriptParsed(u) which resolved
\* to c, with source.path c or any non-URL spelling of c, rewrites
\* source.path to u.
C11_BreakpointAfterScriptParsed ==
    [][ (/\ last.op = "scriptParsed"
         /\ last.ret # last.arg
         /\ last'.op = "setBreakpoints"
         /\ last'.arg # None
         /\ ~isURL(last'.arg)
         /\ canonicalizeUrl(last'.arg) = canonicalizeUrl(last.ret))
        => last'.ret = last.arg ]_vars

\* C12: launch/attach set webRoot and pathMapping to the arguments' values
\* (the empty mapping when pathMapping is absent), from either phase; no
\* other operation changes them, and scriptParsed resolves against them.
C12_ConfigurationLifecycle ==
    [][ /\ last'.op \in {"launch", "attach"} =>
              /\ _webRoot' = last'.arg.webRoot
              /\ _pathMapping' = IF last'.arg.hasPathMapping
                                 THEN last'.arg.pathMapping ELSE << >>
              /\ phase' = "Configured"
        /\ last'.op \notin {"launch", "attach"} =>
              UNCHANGED <<_webRoot, _pathMapping, phase>>
        /\ last'.op = "scriptParsed" =>
              LET byMapping ==
                      targetUrlToClientPathByPathMappings(last'.arg, _pathMapping)
                  byWebRoot == targetUrlToClientPath(_webRoot, last'.arg)
              IN last'.ret = IF byMapping # None THEN byMapping
                             ELSE IF byWebRoot # None THEN byWebRoot
                             ELSE last'.arg ]_vars

\* A launch/attach that omits pathMapping after a non-empty mapping had
\* been in use (its resolution is still cached).
C12_Witness ==
    /\ last.op \in {"launch", "attach"}
    /\ ~last.arg.hasPathMapping
    /\ _pathMapping = << >>
    /\ toClientPath(mapApp, urlPathname(uApp)) \in DOMAIN _clientPathToTargetUrl

\* C13: an unresolved scriptParsed logs exactly one could-not-resolve line
\* unless the URL carries the eval prefix, and then none; a scriptParsed
\* that resolves logs no could-not-resolve line.
C13_WarningLog ==
    last.op = "scriptParsed" =>
        LET warnings == {i \in 1..Len(last.log) :
                            last.log[i] = "scriptParsed: could not resolve"}
            resolved ==
                \/ targetUrlToClientPathByPathMappings(last.arg, _pathMapping) # None
                \/ targetUrlToClientPath(_webRoot, last.arg) # None
        IN IF resolved THEN warnings = {}
           ELSE IF last.arg[1] = EVAL_NAME_PREFIX THEN warnings = {}
           ELSE Cardinality(warnings) = 1

\* An unresolved eval URL under a configured webRoot: nothing is logged.
C13_Witness ==
    /\ last.op = "scriptParsed"
    /\ last.arg = uEval
    /\ _webRoot # None
    /\ last.ret = uEval
    /\ last.log = << >>

\* C14: the maps start empty; a resolving scriptParsed(u) = c makes the
\* target lookup of u give c and the client lookup of c give u and changes
\* no other key; clearTargetContext makes every lookup none; no other call
\* changes a lookup.  So each lookup is the most recent resolution of its
\* key since the last clear, and none when there was no such resolution.
C14_LastWriteWins ==
    /\ _clientPathToTargetUrl = emptyMap /\ _targetUrlToClientPath = emptyMap
    /\ [][ IF last'.op = "scriptParsed" /\ last'.ret # last'.arg
           THEN /\ DOMAIN _targetUrlToClientPath'
                       = (DOMAIN _targetUrlToClientPath) \cup {last'.arg}
                /\ _targetUrlToClientPath'[last'.arg] = last'.ret
                /\ \A u \in (DOMAIN _targetUrlToClientPath) \ {last'.arg} :
                       _targetUrlToClientPath'[u] = _targetUrlToClientPath[u]
                /\ DOMAIN _clientPathToTargetUrl'
                       = (DOMAIN _clientPathToTargetUrl) \cup {last'.ret}
                /\ _clientPathToTargetUrl'[last'.ret] = last'.arg
                /\ \A c \in (DOMAIN _clientPathToTargetUrl) \ {last'.ret} :
                       _clientPathToTargetUrl'[c] = _clientPathToTargetUrl[c]
           ELSE IF last'.op = "clearTargetContext"
           THEN /\ DOMAIN _targetUrlToClientPath' = {}
                /\ DOMAIN _clientPathToTargetUrl' = {}
           ELSE /\ _targetUrlToClientPath' = _targetUrlToClientPath
                /\ _clientPathToTargetUrl' = _clientPathToTargetUrl ]_vars

\* A scriptParsed(u) that overwrote an earlier resolution of u: the earlier
\* client path is still a key for u.
C14_Witness ==
    /\ last.op = "scriptParsed"
    /\ last.ret # last.arg
    /\ \E c \in DOMAIN _clientPathToTargetUrl :
           c # last.ret /\ _clientPathToTargetUrl[c] = last.arg

\* C15: no state shows a pair in one direction only: every value of one
\* map is a key of the other, and the maps are empty together.
C15_AtomicPutAndClear ==
    /\ \A u \in DOMAIN _targetUrlToClientPath :
           _targetUrlToClientPath[u] \in DOMAIN _clientPathToTargetUrl
    /\ \A c \in DOMAIN _clientPathToTargetUrl :
           _clientPathToTargetUrl[c] \in DOMAIN _targetUrlToClientPath
    /\ (DOMAIN _clientPathToTargetUrl = {}) <=> (DOMAIN _targetUrlToClientPath = {})

\* Two cached client paths, one of them for a URL that now maps elsewhere:
\* the maps disagree in content, yet no value lacks its key.
C15_Witness ==
    /\ last.op \in {"scriptParsed", "stackTraceResponse"}
    /\ Cardinality(DOMAIN _clientPathToTargetUrl) >= 2
    /\ \E c \in DOMAIN _clientPathToTargetUrl :
           mapGet(_targetUrlToClientPath, _clientPathToTargetUrl[c]) # c

\* C16: stackTraceResponse keeps the number and order of the frames; a
\* frame without source, without path, or whose path neither the cache nor
\* the WebRoot Resolver resolves is returned exactly as received, and
\* every other frame differs from the received one in path,
\* sourceReference and origin only.
C16_StackTraceFrameCondition ==
    last.op = "stackTraceResponse" =>
        /\ Len(last.ret) = Len(last.arg)
        /\ \A i \in 1..Len(last.arg) :
               LET frame == last.arg[i]
                   unresolved ==
                       \/ ~frame.hasSource
                       \/ frame.path = None
                       \/ /\ mapGet(_targetUrlToClientPath, frame.path) = None
                          /\ targetUrlToClientPath(_webRoot, frame.path) = None
               IN /\ unresolved => last.ret[i] = frame
                  /\ last.ret[i].hasSource = frame.hasSource
                  /\ \A j \in 1..Len(last.arg) :
                         last.arg[j] = frame => last.ret[j] = last.ret[i]

\* A response with a rewritten frame next to frames left as received: one
\* whose path did not resolve is in another response of the same state.
C16_Witness ==
    /\ last.op = "stackTraceResponse"
    /\ Len(last.arg) = 2
    /\ last.ret[1] # last.arg[1]
    /\ last.arg[2].hasSource
    /\ last.arg[2].path = None
    /\ last.ret[2] = last.arg[2]

\* C17 as claimed: without webRoot and with an empty pathMapping, every
\* scriptParsed(u) returns u and leaves the cache empty, and every
\* stackTraceResponse leaves all frames untouched.
C17_GracefulDegradation ==
    (_webRoot = None /\ _pathMapping = << >>) =>
        /\ last.op = "scriptParsed" =>
               /\ last.ret = last.arg
               /\ _clientPathToTargetUrl = emptyMap
               /\ _targetUrlToClientPath = emptyMap
        /\ last.op = "stackTraceResponse" => last.ret = last.arg

\* C17, amended: without webRoot and with an empty pathMapping, every
\* scriptParsed(u) returns u and leaves the cache as it was, and every
\* stackTraceResponse leaves untouched each frame whose path is not in the
\* cache; in the Unconfigured phase there is no webRoot, the pathMapping
\* is empty and so is the cache.
C17_GracefulDegradationAmended ==
    /\ _webRoot = None /\ _pathMapping = << >>
    /\ _clientPathToTargetUrl = emptyMap /\ _targetUrlToClientPath = emptyMap
    /\ [][ /\ phase' = "Unconfigured" =>
                 /\ _webRoot' = None /\ _pathMapping' = << >>
                 /\ _clientPathToTargetUrl' = emptyMap
                 /\ _targetUrlToClientPath' = emptyMap
           /\ (_webRoot' = None /\ _pathMapping' = << >>) =>
                 /\ last'.op = "scriptParsed" =>
                        /\ last'.ret = last'.arg
                        /\ UNCHANGED <<_clientPathToTargetUrl,
                                       _targetUrlToClientPath>>
                 /\ last'.op = "stackTraceResponse" =>
                        /\ Len(last'.ret) = Len(last'.arg)
                        /\ \A i \in 1..Len(last'.arg) :
                               (\/ ~last'.arg[i].hasSource
                                \/ last'.arg[i].path = None
                                \/ mapGet(_targetUrlToClientPath,
                                          last'.arg[i].path) = None)
                               => last'.ret[i] = last'.arg[i] ]_vars

\* An unresolved scriptParsed after a reconfiguration to no webRoot and no
\* pathMapping, the cache still holding an earlier pair.
C17_Witness ==
    /\ last.op = "scriptParsed"
    /\ phase = "Configured"
    /\ _webRoot = None
    /\ _pathMapping = << >>
    /\ last.arg \in {uApp, uRoot}
    /\ last.ret = last.arg
    /\ DOMAIN _targetUrlToClientPath # {}

\* C18: launch and attach leave both maps as they were, so
\* getClientPathFromTargetPath(u) and a stack frame with path u still give
\* the client path cached for u under the previous configuration.
C18_LaunchKeepsCache ==
    [][ last'.op \in {"launch", "attach"} =>
            /\ UNCHANGED <<_clientPathToTargetUrl, _targetUrlToClientPath>>
            /\ \A u \in DOMAIN _targetUrlToClientPath :
                   /\ getClientPathFromTargetPath(u)' = _targetUrlToClientPath[u]
                   /\ stackFrame(FrameOf(u))'.path = _targetUrlToClientPath[u] ]_vars

\* A reconfiguration under which a cached URL would now resolve otherwise.
C18_Witness ==
    /\ last.op \in {"launch", "attach"}
    /\ \E u \in DOMAIN _targetUrlToClientPath :
           /\ resolveClientPath(u) # _targetUrlToClientPath[u]
           /\ stackFrame(FrameOf(u)).path = _targetUrlToClientPath[u]

\* C19: clearTargetContext leaves webRoot, pathMapping and the phase as
\* they were, so every script URL resolves after the clear as before it.
C19_ClearKeepsConfiguration ==
    [][ last'.op = "clearTargetContext" =>
            /\ UNCHANGED <<_webRoot, _pathMapping, phase>>
            /\ \A u \in ScriptUrls :
                   resolveClientPath(u)' = resolveClientPath(u) ]_vars

\* A clear in the Configured phase, under a configuration that resolves
\* some URL.
C19_Witness ==
    /\ last.op = "clearTargetContext"
    /\ phase = "Configured"
    /\ _targetUrlToClientPath = emptyMap
    /\ \E u \in ScriptUrls : resolveClientPath(u) # None

\* C20 as claimed: applying setBreakpoints again to the request it has
\* rewritten leaves source.path as the first application set it.
C20_SetBreakpointsIdempotent ==
    last.op = "setBreakpoints" => setBreakpointsPath(last.ret) = last.ret

\* C20, amended: a second application changes nothing when the first one
\* left source.path absent, a URL, or the canonicalized input path.
C20_SetBreakpointsIdempotentAmended ==
    (/\ last.op = "setBreakpoints"
     /\ \/ last.ret = None
        \/ isURL(last.ret)
        \/ last.ret = canonicalizeUrl(last.arg))
    => setBreakpointsPath(last.ret) = last.ret

\* A path rewritten to its cached URL while the cache also holds a
\* filesystem-style target identifier.
C20_Witness ==
    /\ last.op = "setBreakpoints"
    /\ ~isURL(last.arg)
    /\ isURL(last.ret)
    /\ setBreakpointsPath(last.ret) = last.ret
    /\ \E c \in DOMAIN _clientPathToTargetUrl : ~isURL(_clientPathToTargetUrl[c])

====
